---- MODULE Spec2Model ----
(***************************************************************************)
(* Model of lib/posix-poll/epoll.c: one epoll file (the aggregator), its   *)
(* list of entries, the native pollqueue callback, the vfscore (legacy)    *)
(* shim upcalls, the control operations and the wait loop.                 *)
(*                                                                         *)
(* Event words are modelled as sets of bit names.  Every handler is one    *)
(* action: a control call (which runs under the epoll file's write lock),  *)
(* a notification (the callback or the upcall with its post), a close, and *)
(* one pass of the wait loop (clear, walk, post).  A call's return value   *)
(* is held in ctl or wret for one step, in which only the return happens.  *)
(***************************************************************************)
EXTENDS Integers, Sequences, FiniteSets, TLC

\* ------------------------------------------------------------- universes
\* descriptor numbers of monitored files
Fds == {1, 2}
\* threads calling epoll_pwait2
Waiters == {"w1"}
\* largest maxevents a wait call passes
MaxEvents == 2
\* readiness bits a monitored file raises
FileBits == {"IN"}
\* event records passed to add and modify (MSG lies outside EPOLL_EVENTS)
EventChoices ==
    { [events |-> {"IN"}, data |-> 7],
      [events |-> {"IN", "ET"}, data |-> 7],
      [events |-> {"IN", "ONESHOT"}, data |-> 8],
      [events |-> {"OUT", "MSG", "ET"}, data |-> 8] }
\* file classes a descriptor number can be opened as
Classes(fd) == IF fd = 1 THEN {"native"} ELSE {"legacy"}
\* descriptors that are closed and opened again
Closable == {2}

\* ------------------------------------------------------- program constants
UKFD_POLL_ALWAYS == {"ERR", "HUP"}
EPOLL_EVENTS == {"IN", "OUT", "RDHUP", "PRI"} \cup UKFD_POLL_ALWAYS
EPOLLERR == {"ERR"}
EPOLL_CTL_ADD == 1
EPOLL_CTL_DEL == 2
EPOLL_CTL_MOD == 3
EEXIST == 17
ENOMEM == 12
ENOENT == 2
EINVAL == 22
EBADF == 9
EPOLL_VOLID == "epoll_vol"

events2mask(ev) == (ev \cap EPOLL_EVENTS) \cup UKFD_POLL_ALWAYS

IS_EDGEPOLL(ent) == "ET" \in ent.events
IS_ONESHOT(ent) == "ONESHOT" \in ent.events

VARIABLES
    fdtab,    \* fd -> "closed" | "native" | "legacy": the descriptor table
    ready,    \* fd -> the monitored file's current readiness bits
    list,     \* the epoll file's entry list, in registration order
    epin,     \* the epoll file's own UKFD_POLLIN bit
    pc,       \* waiter -> "idle" | "poll" (blocked in the call) | "done"
    wmax,     \* waiter -> maxevents of the call it is in
    wout,     \* waiter -> the output slots of the call that returns
    wret,     \* waiter -> the return value of the call that returns
    wwalk,    \* waiter -> the call that returns has walked the list
    ctl,      \* the control call that returns, and its result
    uaf,      \* a freed entry or file has been used, or an assertion has failed
    torn,     \* the unregister and free calls of the last handler that tore
              \* entries down, in order (not program state)
    wt,       \* thread -> where it is inside uk_sys_epoll_pwait2, with its locals
    nt,       \* descriptors whose notifier has ORed its bits and not yet posted
    cs        \* the uk_sys_epoll_ctl call in progress: position, lock, reference

vars == <<fdtab, ready, list, epin, pc, wmax, wout, wret, wwalk, ctl, uaf, torn,
          wt, nt, cs>>
wvars == <<pc, wmax, wout, wret, wwalk>>
\* the state of handlers taken statement by statement
stvars == <<wt, nt, cs>>
\* what the handlers taken as single steps leave alone
svars == <<torn, stvars>>

\* ------------------------------------------------------------ list helpers
Idx(l) == 1..Len(l)
IdsOf(l) == {l[i].id : i \in Idx(l)}
HasFd(l, fd) == \E i \in Idx(l) : l[i].fd = fd
\* the first entry a walk from the head finds with this descriptor number
FirstFd(l, fd) == CHOOSE i \in Idx(l) : l[i].fd = fd /\ \A j \in 1..(i-1) : l[j].fd # fd
IdxOfId(l, id) == CHOOSE i \in Idx(l) : l[i].id = id
RemoveAt(l, i) == SubSeq(l, 1, i-1) \o SubSeq(l, i+1, Len(l))
\* uk_malloc: the slot handed out for a new entry
NewId(l) == CHOOSE id \in 1..(Len(l) + 1) :
               id \notin IdsOf(l) /\ \A j \in 1..(id - 1) : j \in IdsOf(l)

\* ------------------------------------------------------------ pollqueue
\* uk_pollq_poll_register / uk_file_poll_immediate: the file's current events
\* within the requested mask
PollImmediate(events, mask) == events \cap mask

\* VOP_POLL of a vnode: the raw readiness it reports
VopPoll(events) == events

\* ------------------------------------------------------------ entries
\* An entry: id (its allocation), fd, legacy, events and data (the
\* epoll_event), revents (the accumulator), mask (tick.mask or
\* legacy_cb.mask), hooked (the hook is registered with the file's pollqueue
\* or vnode driver), link (legacy_cb.f_link on the file's f_ep list), dead
\* (the file it refers to has been closed), and fired, which is not program
\* state: a slot was written for this one-shot entry since it was last armed.
NewEntry(l, fd, ev, data) ==
    [id |-> NewId(l), fd |-> fd, legacy |-> FALSE, events |-> ev, data |-> data,
     revents |-> {}, mask |-> events2mask(ev), hooked |-> TRUE,
     link |-> "none", dead |-> FALSE, fired |-> FALSE]

NewLegacyEntry(l, fd, ev, data) ==
    [id |-> NewId(l), fd |-> fd, legacy |-> TRUE, events |-> ev, data |-> data,
     revents |-> {}, mask |-> events2mask(ev), hooked |-> FALSE,
     link |-> "none", dead |-> FALSE, fired |-> FALSE]

\* uk_list_add_tail(&leg->f_link, &vfd->f_ep): a node already on the list
\* ends up linked to itself
ListAddTail(link) == IF link = "none" THEN "linked" ELSE "looped"

\* vfs_poll_register: the entry after the poll, and whether the epoll file
\* is posted readable
vfs_poll_register(ent, raw, ok) ==
    IF ~ok
    THEN [ent |-> [ent EXCEPT !.revents = EPOLLERR], post |-> FALSE]
    ELSE LET e2 == [ent EXCEPT !.link = ListAddTail(ent.link),
                               !.hooked = TRUE,
                               !.revents = VopPoll(raw) \cap ent.mask]
         IN [ent |-> e2, post |-> e2.revents # {}]

\* a duplicate scan that looks at the head of the list only
AddScanHeadOnly(l, fd) == Len(l) > 0 /\ l[1].fd = fd

\* the duplicate scan at the head of epoll_add and epoll_add_legacy
AddScan(l, fd) == HasFd(l, fd)

\* an add that links the entry before the allocation failure is seen
epoll_add_links_first(l, fd, ev, data, oom, fready) ==
    IF AddScan(l, fd)
    THEN [ret |-> -EEXIST, list |-> l, post |-> FALSE]
    ELSE LET ent == NewEntry(l, fd, ev, data)
             sample == PollImmediate(fready, ent.mask)
         IN [ret |-> IF oom THEN -ENOMEM ELSE 0,
             list |-> Append(l, [ent EXCEPT !.revents = sample]),
             post |-> sample # {}]

\* epoll_add: [ret, list, post]
epoll_add(l, fd, ev, data, oom, fready) ==
    IF AddScan(l, fd) THEN [ret |-> -EEXIST, list |-> l, post |-> FALSE]
    ELSE IF oom THEN [ret |-> -ENOMEM, list |-> l, post |-> FALSE]
    ELSE LET ent == NewEntry(l, fd, ev, data)
             sample == PollImmediate(fready, ent.mask)
         IN [ret |-> 0,
             list |-> Append(l, [ent EXCEPT !.revents = sample]),
             post |-> sample # {}]

\* epoll_add_legacy: [ret, list, post]
epoll_add_legacy(l, fd, ev, data, oom, fready, pollok) ==
    IF AddScan(l, fd) THEN [ret |-> -EEXIST, list |-> l, post |-> FALSE]
    ELSE IF oom THEN [ret |-> -ENOMEM, list |-> l, post |-> FALSE]
    ELSE LET r == vfs_poll_register(NewLegacyEntry(l, fd, ev, data), fready, pollok)
         IN [ret |-> 0, list |-> Append(l, r.ent), post |-> r.post]

\* a modify that swaps the mask and keeps the accumulator
entry_mod_keeps(ent, ev, data) ==
    [ent EXCEPT !.mask = events2mask(ev), !.events = ev, !.data = data,
                !.fired = FALSE]

\* entry_mod: uk_pollq_reregister with the new mask, then the reset
entry_mod(ent, ev, data) ==
    [ent EXCEPT !.mask = events2mask(ev), !.events = ev, !.data = data,
                !.revents = {}, !.fired = FALSE]

\* entry_mod_legacy: [ent, post]
entry_mod_legacy(ent, ev, data, fready, pollok) ==
    vfs_poll_register([ent EXCEPT !.revents = {}, !.mask = events2mask(ev),
                                  !.events = ev, !.data = data, !.fired = FALSE],
                      fready, pollok)

\* epoll_mod: [ret, list, post]
epoll_mod(l, fd, ev, data, fready, pollok) ==
    IF ~HasFd(l, fd) THEN [ret |-> -ENOENT, list |-> l, post |-> FALSE]
    ELSE LET i == FirstFd(l, fd)
         IN IF l[i].legacy
            THEN LET r == entry_mod_legacy(l[i], ev, data, fready, pollok)
                 IN [ret |-> 0, list |-> [l EXCEPT ![i] = r.ent], post |-> r.post]
            ELSE [ret |-> 0, list |-> [l EXCEPT ![i] = entry_mod(l[i], ev, data)],
                  post |-> FALSE]

\* epoll_del: [ret, list]; the entry is unlinked, unregistered and freed
epoll_del(l, fd) ==
    IF ~HasFd(l, fd) THEN [ret |-> -ENOENT, list |-> l]
    ELSE [ret |-> 0, list |-> RemoveAt(l, FirstFd(l, fd))]

\* ------------------------------------------------------------ initial state
NoCtl == [vol |-> "", op |-> 0, fd |-> 0, ret |-> 0]

\* threads that call epoll_pwait2 on the same epoll file at once
StepWaiters == {"w1", "w2"}
\* a thread outside the call
NoWait == [pc |-> "out", cur |-> 0, nout |-> 0, lvl |-> FALSE, got |-> {}]
\* no control call in progress
NoCs == [pc |-> "none", vol |-> "", op |-> 0, fd |-> 0, ret |-> 0,
         ref |-> 0, drops |-> 0, wlocked |-> FALSE]

Init ==
    /\ fdtab = [fd \in Fds |-> CHOOSE c \in Classes(fd) : TRUE]
    /\ ready = [fd \in Fds |-> {}]
    /\ list = << >>
    /\ epin = FALSE
    /\ pc = [w \in Waiters |-> "idle"]
    /\ wmax = [w \in Waiters |-> 1]
    /\ wout = [w \in Waiters |-> << >>]
    /\ wret = [w \in Waiters |-> 0]
    /\ wwalk = [w \in Waiters |-> FALSE]
    /\ ctl = NoCtl
    /\ uaf = FALSE
    /\ torn = << >>
    /\ wt = [w \in StepWaiters |-> NoWait]
    /\ nt = {}
    /\ cs = NoCs

\* a syscall result is being handed back to its caller
Returning == ctl # NoCtl \/ \E w \in Waiters : pc[w] = "done"
\* nothing is defined after a use of freed memory or a failed assertion: the
\* model stops there
Running == ~uaf /\ ~Returning
\* entries of the list that refer to the file now open at fd
LiveAt(l, fd) == {i \in Idx(l) : l[i].fd = fd /\ ~l[i].dead}

\* ------------------------------------------------------------ uk_sys_epoll_ctl
\* epoll_mod reaches a legacy entry whose file has been closed
ModOfDead(l, fd) == HasFd(l, fd) /\ l[FirstFd(l, fd)].legacy /\ l[FirstFd(l, fd)].dead

\* UK_ASSERT((*tail)->legacy) in the scan of epoll_add_legacy fails
AddLegacyAsserts(l, fd) == HasFd(l, fd) /\ ~l[FirstFd(l, fd)].legacy

CtlResult(vol, op, fd, ev, oom, pollok) ==
    IF vol # EPOLL_VOLID THEN [ret |-> -EINVAL, list |-> list, post |-> FALSE]
    ELSE IF fdtab[fd] = "closed" THEN [ret |-> -EBADF, list |-> list, post |-> FALSE]
    ELSE IF op = EPOLL_CTL_ADD THEN
        IF fdtab[fd] = "legacy"
        THEN epoll_add_legacy(list, fd, ev.events, ev.data, oom, ready[fd], pollok)
        ELSE epoll_add(list, fd, ev.events, ev.data, oom, ready[fd])
    ELSE IF op = EPOLL_CTL_MOD THEN
        \* polling an entry whose vfscore file is gone reads freed memory; the
        \* outcome taken is a failing poll
        IF ModOfDead(list, fd)
        THEN epoll_mod(list, fd, ev.events, ev.data, {}, FALSE)
        ELSE epoll_mod(list, fd, ev.events, ev.data, ready[fd], pollok)
    ELSE IF op = EPOLL_CTL_DEL THEN
        LET r == epoll_del(list, fd) IN [ret |-> r.ret, list |-> r.list, post |-> FALSE]
    ELSE [ret |-> -EINVAL, list |-> list, post |-> FALSE]

\* the call polls a freed file or fails an assertion
CtlUndefined(vol, op, fd) ==
    /\ vol = EPOLL_VOLID /\ fdtab[fd] # "closed"
    /\ \/ op = EPOLL_CTL_MOD /\ ModOfDead(list, fd)
       \/ op = EPOLL_CTL_ADD /\ fdtab[fd] = "legacy" /\ AddLegacyAsserts(list, fd)

Ctl(vol, op, fd, ev, oom, pollok) ==
    /\ Running
    /\ LET r == CtlResult(vol, op, fd, ev, oom, pollok)
       IN /\ list' = r.list
          /\ epin' = (epin \/ r.post)
          /\ ctl' = [vol |-> vol, op |-> op, fd |-> fd, ret |-> r.ret]
    /\ uaf' = (uaf \/ CtlUndefined(vol, op, fd))
    /\ UNCHANGED <<fdtab, ready, wvars, svars>>

CtlReturn ==
    /\ ctl # NoCtl
    /\ ctl' = NoCtl
    /\ UNCHANGED <<fdtab, ready, list, epin, wvars, uaf, svars>>

\* ------------------------------------------------------------ notifications
\* epoll_event_callback(set, UK_POLL_CHAINOP_SET, tick): the entry afterwards;
\* the epoll file is always posted
epoll_event_callback(ent, set) ==
    LET e2 == [ent EXCEPT !.revents = ent.revents \cup set]
    IN IF IS_ONESHOT(e2) THEN [e2 EXCEPT !.mask = {}] ELSE e2

\* a signal that stores what the driver reports, unmasked
SignalBitsUnmasked(ent, revents) == revents

\* eventpoll_signal: the bits that survive the stored mask
SignalBits(ent, revents) == revents \cap ent.mask

\* eventpoll_signal(ecb, revents): the entry afterwards
eventpoll_signal(ent, revents) ==
    [ent EXCEPT !.revents = ent.revents \cup SignalBits(ent, revents)]

\* the pollqueue runs a hook when newly set bits meet the hook's mask, with
\* those bits; a vnode driver signals every registered eventpoll_cb
Fires(ent, new) ==
    /\ ent.hooked
    /\ IF ent.legacy THEN SignalBits(ent, new) # {} ELSE new \cap ent.mask # {}

Notify(ent, new) ==
    IF ent.legacy THEN eventpoll_signal(ent, new)
    ELSE epoll_event_callback(ent, new \cap ent.mask)

\* a monitored file raises bits
FileSet(fd, bits) ==
    /\ Running
    /\ fdtab[fd] # "closed"
    /\ bits \ ready[fd] # {}
    /\ LET new == bits \ ready[fd]
           hit == {i \in LiveAt(list, fd) : Fires(list[i], new)}
       IN /\ ready' = [ready EXCEPT ![fd] = ready[fd] \cup bits]
          /\ list' = [i \in Idx(list) |->
                        IF i \in hit THEN Notify(list[i], new) ELSE list[i]]
          /\ epin' = (epin \/ hit # {})
    /\ UNCHANGED <<fdtab, wvars, ctl, uaf, svars>>

\* a monitored file drops bits (uk_pollq_clear: no hook runs)
FileClear(fd, bits) ==
    /\ Running
    /\ fdtab[fd] # "closed"
    /\ bits \cap ready[fd] # {}
    /\ ready' = [ready EXCEPT ![fd] = ready[fd] \ bits]
    /\ UNCHANGED <<fdtab, list, epin, wvars, ctl, uaf, svars>>

\* ------------------------------------------------------------ open and close
Open(fd, class) ==
    /\ Running
    /\ fdtab[fd] = "closed"
    /\ fdtab' = [fdtab EXCEPT ![fd] = class]
    /\ UNCHANGED <<ready, list, epin, wvars, ctl, uaf, svars>>

\* the entries left behind by a closed file: their hooks are gone with it
Orphan(l, fd) ==
    [i \in Idx(l) |->
       IF l[i].fd = fd /\ ~l[i].dead
       THEN [l[i] EXCEPT !.dead = TRUE, !.hooked = FALSE, !.link = "none"]
       ELSE l[i]]

\* hook records on the closing file's f_ep list
OnEpList(l, fd) == {i \in LiveAt(l, fd) : l[i].legacy /\ l[i].link # "none"}

\* eventpoll_notify_close: every hook record on fp->f_ep is unregistered and
\* epoll_del removes the first entry carrying its descriptor number
RECURSIVE eventpoll_notify_close(_, _)
eventpoll_notify_close(l, fd) ==
    IF OnEpList(l, fd) = {} THEN l
    ELSE eventpoll_notify_close(epoll_del(l, fd).list, fd)

\* the list walk of eventpoll_notify_close steps onto a freed node when a
\* node was linked to itself
CloseWalksFreed(l, fd) == \E i \in OnEpList(l, fd) : l[i].link = "looped"

\* the registry after the file at fd, of the given class, has been closed
AfterClose(l, fd, class) ==
    Orphan(IF class = "legacy" THEN eventpoll_notify_close(l, fd) ELSE l, fd)

Close(fd) ==
    /\ Running
    /\ fdtab[fd] # "closed"
    /\ fdtab' = [fdtab EXCEPT ![fd] = "closed"]
    /\ ready' = [ready EXCEPT ![fd] = {}]
    /\ list' = AfterClose(list, fd, fdtab[fd])
    /\ uaf' = (uaf \/ (fdtab[fd] = "legacy" /\ CloseWalksFreed(list, fd)))
    /\ UNCHANGED <<epin, wvars, ctl, svars>>

\* ------------------------------------------------------------ uk_sys_epoll_pwait2
\* one output slot: events[nout].events and .data; fd is not program state, it
\* names the entry the slot was written for
Slot(revents, ent) == [events |-> revents, data |-> ent.data, fd |-> ent.fd]

\* the entry after a slot was written for it
Shot(ent) ==
    IF IS_ONESHOT(ent) THEN [ent EXCEPT !.fired = TRUE] ELSE ent

\* the re-sample of a level-triggered entry: what the file has now, within
\* events2mask(p->event.events); a failing vfs_poll leaves the candidate
Resample(ent, cand, fready, pollok) ==
    IF ent.legacy
    THEN (IF pollok THEN VopPoll(fready) ELSE cand) \cap events2mask(ent.events)
    ELSE PollImmediate(fready, events2mask(ent.events))

\* the body of the walk for one entry: [ent, slots, lvl]
WalkEntry(ent, fready, pollok) ==
    LET revents == ent.revents
        drained == [ent EXCEPT !.revents = {}]
    IN IF revents = {} THEN [ent |-> ent, slots |-> << >>, lvl |-> FALSE]
       ELSE IF IS_EDGEPOLL(ent)
       THEN [ent |-> Shot(drained), slots |-> <<Slot(revents, ent)>>, lvl |-> FALSE]
       ELSE LET cur == Resample(ent, revents, fready, pollok)
                polled == [drained EXCEPT !.hooked = @ \/ (ent.legacy /\ pollok)]
            IN IF cur = {}
               THEN [ent |-> polled, slots |-> << >>, lvl |-> FALSE]
               ELSE [ent |-> [Shot(polled) EXCEPT !.revents = cur],
                     slots |-> <<Slot(cur, ent)>>, lvl |-> TRUE]

\* the walk re-polls a level-triggered legacy entry whose file is gone
PollsFreed(ent) == ent.legacy /\ ent.dead /\ ent.revents # {} /\ ~IS_EDGEPOLL(ent)

\* for (p = *list; p && nout < maxevents; p = p->next): [list, out, lvl, uaf]
RECURSIVE Walk(_, _, _, _, _, _, _, _)
Walk(l, i, out, lvl, bad, max, rdy, pollok) ==
    IF i > Len(l) \/ Len(out) >= max
    THEN [list |-> l, out |-> out, lvl |-> lvl, uaf |-> bad]
    ELSE LET ent == l[i]
             live == ~ent.dead
             r == WalkEntry(ent, IF live THEN rdy[ent.fd] ELSE {}, pollok /\ live)
         IN Walk([l EXCEPT ![i] = r.ent], i + 1, out \o r.slots, lvl \/ r.lvl,
                 bad \/ PollsFreed(ent), max, rdy, pollok)

\* a turn of the loop that hands back whatever it has, even nothing
PassReturnsAlways(nout, timed) == TRUE

\* the call leaves the loop: return nout when nout is nonzero, or the deadline
\* runs out in the next uk_file_poll_until
PassReturns(nout, timed) == nout > 0 \/ timed

\* one turn of the while loop with the epoll file readable: clear, walk, post
Pass(w, max, timed, pollok) ==
    LET r == Walk(list, 1, << >>, FALSE, FALSE, max, ready, pollok)
    IN /\ list' = r.list
       /\ epin' = r.lvl
       /\ uaf' = (uaf \/ r.uaf)
       /\ wmax' = [wmax EXCEPT ![w] = max]
       /\ IF PassReturns(Len(r.out), timed)
          THEN /\ pc' = [pc EXCEPT ![w] = "done"]
               /\ wret' = [wret EXCEPT ![w] = Len(r.out)]
               /\ wout' = [wout EXCEPT ![w] = r.out]
               /\ wwalk' = [wwalk EXCEPT ![w] = TRUE]
          ELSE /\ pc' = [pc EXCEPT ![w] = "poll"]
               /\ UNCHANGED <<wret, wout, wwalk>>

\* the call: timed is a timeout that runs out, otherwise none is given
WaitCall(w, max, timed, pollok) ==
    /\ Running
    /\ pc[w] = "idle"
    /\ IF epin THEN Pass(w, max, timed, pollok)
       ELSE /\ wmax' = [wmax EXCEPT ![w] = max]
            /\ IF timed
               THEN /\ pc' = [pc EXCEPT ![w] = "done"]
                    /\ wret' = [wret EXCEPT ![w] = 0]
                    /\ wout' = [wout EXCEPT ![w] = << >>]
               ELSE /\ pc' = [pc EXCEPT ![w] = "poll"]
                    /\ UNCHANGED <<wret, wout>>
            /\ UNCHANGED <<list, epin, uaf, wwalk>>
    /\ UNCHANGED <<fdtab, ready, ctl, svars>>

\* a blocked call is woken by the epoll file becoming readable
WaitWake(w, pollok) ==
    /\ Running
    /\ pc[w] = "poll"
    /\ epin
    /\ Pass(w, wmax[w], FALSE, pollok)
    /\ UNCHANGED <<fdtab, ready, ctl, svars>>

\* the call has returned; the thread may call again
WaitReturn(w) ==
    /\ pc[w] = "done"
    /\ pc' = [pc EXCEPT ![w] = "idle"]
    /\ wret' = [wret EXCEPT ![w] = 0]
    /\ wout' = [wout EXCEPT ![w] = << >>]
    /\ wmax' = [wmax EXCEPT ![w] = 1]
    /\ wwalk' = [wwalk EXCEPT ![w] = FALSE]
    /\ UNCHANGED <<fdtab, ready, list, epin, ctl, uaf, svars>>

\* ------------------------------------------------------------ specification
AnyEvent == CHOOSE ev \in EventChoices : TRUE
PollOutcomes(fd) == IF fdtab[fd] = "legacy" THEN BOOLEAN ELSE {TRUE}

Next ==
    \/ \E fd \in Fds, ev \in EventChoices : \E pollok \in PollOutcomes(fd) :
          Ctl(EPOLL_VOLID, EPOLL_CTL_ADD, fd, ev, FALSE, pollok)
    \/ \E fd \in Fds : Ctl(EPOLL_VOLID, EPOLL_CTL_ADD, fd, AnyEvent, TRUE, TRUE)
    \/ \E fd \in Fds, ev \in EventChoices : \E pollok \in PollOutcomes(fd) :
          Ctl(EPOLL_VOLID, EPOLL_CTL_MOD, fd, ev, FALSE, pollok)
    \/ \E fd \in Fds : Ctl(EPOLL_VOLID, EPOLL_CTL_DEL, fd, AnyEvent, FALSE, TRUE)
    \/ \E fd \in Fds : Ctl(EPOLL_VOLID, 0, fd, AnyEvent, FALSE, TRUE)
    \/ \E op \in {EPOLL_CTL_ADD, EPOLL_CTL_DEL} :
          Ctl("other", op, 1, AnyEvent, FALSE, TRUE)
    \/ CtlReturn
    \/ \E fd \in Fds, bits \in SUBSET FileBits : FileSet(fd, bits)
    \/ \E fd \in Fds, bits \in SUBSET FileBits : FileClear(fd, bits)
    \/ \E fd \in Closable : \E class \in Classes(fd) : Open(fd, class)
    \/ \E fd \in Closable : Close(fd)
    \/ \E w \in Waiters, max \in 1..MaxEvents, timed \in BOOLEAN, pollok \in BOOLEAN :
          WaitCall(w, max, timed, pollok)
    \/ \E w \in Waiters, pollok \in BOOLEAN : WaitWake(w, pollok)
    \/ \E w \in Waiters : WaitReturn(w)

Spec == Init /\ [][Next]_vars

\* ------------------------------------------------ descriptor numbers reused
\* file classes a descriptor number is opened as when numbers are reused
AnyClass == {"native", "legacy"}

\* the control operations with every descriptor closed and opened again as a
\* file of either class
NextReuse ==
    \/ \E fd \in Fds, ev \in EventChoices : \E pollok \in PollOutcomes(fd) :
          Ctl(EPOLL_VOLID, EPOLL_CTL_ADD, fd, ev, FALSE, pollok)
    \/ \E fd \in Fds, ev \in EventChoices : \E pollok \in PollOutcomes(fd) :
          Ctl(EPOLL_VOLID, EPOLL_CTL_MOD, fd, ev, FALSE, pollok)
    \/ \E fd \in Fds : Ctl(EPOLL_VOLID, EPOLL_CTL_DEL, fd, AnyEvent, FALSE, TRUE)
    \/ CtlReturn
    \/ \E fd \in Fds, class \in AnyClass : Open(fd, class)
    \/ \E fd \in Fds : Close(fd)

ReuseSpec == Init /\ [][NextReuse]_vars

\* ------------------------------------------------------------ teardown
\* the calls that take an entry down: epoll_unregister_entry(ent) and
\* uk_free(al->alloc, ent)
UnregisterCall(ent) == [call |-> "unregister", id |-> ent.id]
FreeCall(ent) == [call |-> "free", id |-> ent.id]

\* epoll_unregister_entry: one unregistration of the entry's hook (the
\* unregister upcall and the unlink of f_link, or uk_pollq_unregister and the
\* release of the weak reference)
epoll_unregister_entry(ent) == <<UnregisterCall(ent)>>

\* the calls epoll_del makes for the entry it finds
epoll_del_calls(l, fd) ==
    IF ~HasFd(l, fd) THEN << >>
    ELSE LET ent == l[FirstFd(l, fd)]
         IN epoll_unregister_entry(ent) \o <<FreeCall(ent)>>

\* the calls eventpoll_notify_close makes: for every hook record on fp->f_ep,
\* epoll_unregister_entry(ent) and then epoll_del(leg->epf, ent->fd)
RECURSIVE notify_close_calls(_, _)
notify_close_calls(l, fd) ==
    IF OnEpList(l, fd) = {} THEN << >>
    ELSE LET ent == l[CHOOSE i \in OnEpList(l, fd) :
                         \A j \in OnEpList(l, fd) : i <= j]
         IN epoll_unregister_entry(ent) \o epoll_del_calls(l, ent.fd)
               \o notify_close_calls(epoll_del(l, ent.fd).list, fd)

\* the calls epoll_release makes with UK_FILE_RELEASE_RES
RECURSIVE epoll_release_calls(_)
epoll_release_calls(l) ==
    IF l = << >> THEN << >>
    ELSE epoll_unregister_entry(l[1]) \o <<FreeCall(l[1])>>
            \o epoll_release_calls(Tail(l))

\* a control call, taken with its return
TdCtl(op, fd, ev, pollok) ==
    /\ ~uaf
    /\ LET r == CtlResult(EPOLL_VOLID, op, fd, ev, FALSE, pollok)
       IN /\ list' = r.list
          /\ epin' = (epin \/ r.post)
          /\ torn' = IF op = EPOLL_CTL_DEL /\ r.ret = 0
                     THEN epoll_del_calls(list, fd) ELSE << >>
    /\ uaf' = (uaf \/ CtlUndefined(EPOLL_VOLID, op, fd))
    /\ UNCHANGED <<fdtab, ready, wvars, ctl, stvars>>

\* close of a monitored file
TdClose(fd) ==
    /\ ~uaf
    /\ fdtab[fd] # "closed"
    /\ fdtab' = [fdtab EXCEPT ![fd] = "closed"]
    /\ ready' = [ready EXCEPT ![fd] = {}]
    /\ list' = AfterClose(list, fd, fdtab[fd])
    /\ torn' = IF fdtab[fd] = "legacy" THEN notify_close_calls(list, fd) ELSE << >>
    /\ uaf' = (uaf \/ (fdtab[fd] = "legacy" /\ CloseWalksFreed(list, fd)))
    /\ UNCHANGED <<epin, wvars, ctl, stvars>>

\* the last reference on the epoll file goes: epoll_release frees the
\* entries; the next step acts on a newly created epoll file
TdRelease ==
    /\ ~uaf
    /\ list # << >>
    /\ list' = << >>
    /\ epin' = FALSE
    /\ torn' = epoll_release_calls(list)
    /\ UNCHANGED <<fdtab, ready, wvars, ctl, uaf, stvars>>

NextTeardown ==
    \/ \E fd \in Fds, ev \in EventChoices : \E pollok \in PollOutcomes(fd) :
          TdCtl(EPOLL_CTL_ADD, fd, ev, pollok)
    \/ \E fd \in Fds, ev \in EventChoices : \E pollok \in PollOutcomes(fd) :
          TdCtl(EPOLL_CTL_MOD, fd, ev, pollok)
    \/ \E fd \in Fds : TdCtl(EPOLL_CTL_DEL, fd, AnyEvent, TRUE)
    \/ \E fd \in Fds : TdClose(fd)
    \/ \E fd \in Fds : \E class \in Classes(fd) : Open(fd, class)
    \/ TdRelease

TeardownSpec == Init /\ [][NextTeardown]_vars

\* ------------------------------------------------ statement by statement
\* Here the handlers are taken apart at the statements other threads can see:
\* the notifier's OR and its post, the waiter's poll, clear, lock, walk of one
\* entry, unlock and post, and the control call's reference, lock and unlock.

\* maxevents of the wait calls
StepMax == 2
\* event records passed to add
StepEvents ==
    { [events |-> {"IN", "ET"}, data |-> 7],
      [events |-> {"IN"}, data |-> 8] }

\* threads blocked in uk_file_poll_until
Blocked == {w \in StepWaiters : wt[w].pc = "poll"}
\* threads holding the read lock
Readers == {w \in StepWaiters : wt[w].pc = "walk"}

\* uk_pollq_set_n(q, UKFD_POLLIN, n): the sets of blocked threads it may wake;
\* nobody is woken for a bit that is already set
WakeSets(n) ==
    IF epin \/ Blocked = {} THEN {{}}
    ELSE IF n = "all" THEN {Blocked}
    ELSE {{w} : w \in Blocked}

\* the threads after those of W have been woken
Woke(W) ==
    [w \in StepWaiters |-> IF w \in W THEN [wt[w] EXCEPT !.pc = "seen"] ELSE wt[w]]

\* a callback that wakes every waiter whatever the entry's mode
CallbackFanoutAll(ent) == "all"

\* the n of uk_pollq_set_n(upq, UKFD_POLLIN, IS_EDGEPOLL(ent) ? 1 : ALL)
CallbackFanout(ent) == IF IS_EDGEPOLL(ent) THEN "one" ELSE "all"

\* how many waiters a post for this entry wakes: a legacy entry posts with
\* uk_file_event_set
PostFanout(ent) == IF ent.legacy THEN "all" ELSE CallbackFanout(ent)

\* -- the waiter
\* uk_file_poll_until: readable already, or block
SWaitCall(w) ==
    /\ ~uaf
    /\ wt[w].pc = "out"
    /\ wt' = [wt EXCEPT ![w].pc = IF epin THEN "seen" ELSE "poll"]
    /\ UNCHANGED <<fdtab, ready, list, epin, wvars, ctl, uaf, torn, nt, cs>>

\* uk_file_event_clear(epf, UKFD_POLLIN)
SClear(w) ==
    /\ ~uaf
    /\ wt[w].pc = "seen"
    /\ epin' = FALSE
    /\ wt' = [wt EXCEPT ![w].pc = "clear"]
    /\ UNCHANGED <<fdtab, ready, list, wvars, ctl, uaf, torn, nt, cs>>

\* uk_file_rlock(epf) and p = *list
SRlock(w) ==
    /\ ~uaf
    /\ wt[w].pc = "clear"
    /\ ~cs.wlocked
    /\ wt' = [wt EXCEPT ![w] = [pc |-> "walk",
                                 cur |-> IF list = << >> THEN 0 ELSE list[1].id,
                                 nout |-> 0, lvl |-> FALSE, got |-> {}]]
    /\ UNCHANGED <<fdtab, ready, list, epin, wvars, ctl, uaf, torn, nt, cs>>

\* p->next of the entry at position i
NextId(l, i) == IF i < Len(l) THEN l[i + 1].id ELSE 0

\* the loop body for the entry p points to; p points to freed memory when the
\* entry has been taken off the list meanwhile
SWalk(w) ==
    /\ ~uaf
    /\ wt[w].pc = "walk"
    /\ wt[w].cur # 0
    /\ wt[w].nout < StepMax
    /\ IF wt[w].cur \notin IdsOf(list)
       THEN /\ uaf' = TRUE
            /\ UNCHANGED <<list, wt>>
       ELSE LET i == IdxOfId(list, wt[w].cur)
                ent == list[i]
                live == ~ent.dead
                r == WalkEntry(ent, IF live THEN ready[ent.fd] ELSE {}, live)
            IN /\ list' = [list EXCEPT ![i] = r.ent]
               /\ wt' = [wt EXCEPT ![w].cur = NextId(list, i),
                                    ![w].nout = @ + Len(r.slots),
                                    ![w].lvl = @ \/ r.lvl,
                                    ![w].got = @ \cup {r.slots[k].fd : k \in 1..Len(r.slots)}]
               /\ uaf' = (uaf \/ PollsFreed(ent))
    /\ UNCHANGED <<fdtab, ready, epin, wvars, ctl, torn, nt, cs>>

\* the loop ends; uk_file_runlock(epf)
SUnlock(w) ==
    /\ ~uaf
    /\ wt[w].pc = "walk"
    /\ wt[w].cur = 0 \/ wt[w].nout >= StepMax
    /\ wt' = [wt EXCEPT ![w].pc = "post"]
    /\ UNCHANGED <<fdtab, ready, list, epin, wvars, ctl, uaf, torn, nt, cs>>

\* a walk that ends by writing the readable bit, set or clear
PostAfterWalkClears(readable, lvl) == lvl

\* if (lvlev) uk_file_event_set(epf, UKFD_POLLIN): the readable bit afterwards
PostAfterWalk(readable, lvl) == readable \/ lvl

\* the post, then return nout or go round to uk_file_poll_until
SPost(w) ==
    /\ ~uaf
    /\ wt[w].pc = "post"
    /\ epin' = PostAfterWalk(epin, wt[w].lvl)
    /\ \E W \in (IF wt[w].lvl THEN WakeSets("all") ELSE {{}}) :
          wt' = [Woke(W) EXCEPT ![w].pc =
                    IF wt[w].nout > 0 THEN "ret"
                    ELSE IF epin' THEN "seen" ELSE "poll"]
    /\ UNCHANGED <<fdtab, ready, list, wvars, ctl, uaf, torn, nt, cs>>

\* the call has returned
SReturn(w) ==
    /\ wt[w].pc = "ret"
    /\ wt' = [wt EXCEPT ![w] = NoWait]
    /\ UNCHANGED <<fdtab, ready, list, epin, wvars, ctl, uaf, torn, nt, cs>>

\* -- the notifier
\* ukarch_or(&ent->revents, set) of the callback, ukarch_or(&leg->revents,
\* revents) of the signal upcall
NotifyOr(ent, new) ==
    IF ent.legacy THEN eventpoll_signal(ent, new)
    ELSE [ent EXCEPT !.revents = @ \cup (new \cap ent.mask)]

\* if (IS_ONESHOT(ent)) tick->mask = 0, after the post
NotifyDisarm(ent) ==
    IF ~ent.legacy /\ IS_ONESHOT(ent) THEN [ent EXCEPT !.mask = {}] ELSE ent

\* the file at fd raises its bits: the hooks that fire OR them in
NRaise(fd) ==
    /\ ~uaf
    /\ fdtab[fd] # "closed"
    /\ fd \notin nt
    /\ FileBits \ ready[fd] # {}
    /\ LET new == FileBits \ ready[fd]
           hit == {i \in LiveAt(list, fd) : Fires(list[i], new)}
       IN /\ ready' = [ready EXCEPT ![fd] = @ \cup new]
          /\ list' = [i \in Idx(list) |->
                        IF i \in hit THEN NotifyOr(list[i], new) ELSE list[i]]
          /\ nt' = IF hit = {} THEN nt ELSE nt \cup {fd}
    /\ UNCHANGED <<fdtab, epin, wvars, ctl, uaf, torn, wt, cs>>

\* the notifier posts the epoll file readable
NSet(fd) ==
    /\ ~uaf
    /\ fd \in nt
    /\ LET i == CHOOSE i \in Idx(list) : list[i].fd = fd /\ ~list[i].dead
       IN /\ epin' = TRUE
          /\ \E W \in WakeSets(PostFanout(list[i])) : wt' = Woke(W)
          /\ list' = [list EXCEPT ![i] = NotifyDisarm(list[i])]
    /\ nt' = nt \ {fd}
    /\ UNCHANGED <<fdtab, ready, wvars, ctl, uaf, torn, cs>>

\* the file at fd drops its bits
NDrop(fd) ==
    /\ ~uaf
    /\ fdtab[fd] # "closed"
    /\ fd \notin nt
    /\ ready[fd] # {}
    /\ ready' = [ready EXCEPT ![fd] = {}]
    /\ UNCHANGED <<fdtab, list, epin, wvars, ctl, uaf, torn, wt, nt, cs>>

\* -- the control call
\* the volume check and uk_fdtab_shim_get
CCall(vol, op, fd) ==
    /\ ~uaf
    /\ cs.pc = "none"
    /\ cs' = IF vol # EPOLL_VOLID
             THEN [NoCs EXCEPT !.pc = "ret", !.vol = vol, !.op = op, !.fd = fd,
                               !.ret = -EINVAL]
             ELSE IF fdtab[fd] = "closed"
             THEN [NoCs EXCEPT !.pc = "ret", !.vol = vol, !.op = op, !.fd = fd,
                               !.ret = -EBADF]
             ELSE [NoCs EXCEPT !.pc = "got", !.vol = vol, !.op = op, !.fd = fd,
                               !.ref = 1]
    /\ UNCHANGED <<fdtab, ready, list, epin, wvars, ctl, uaf, torn, wt, nt>>

\* uk_file_wlock(epf) and the switch; the hook of an entry is not taken off
\* its file while its notifier runs
CLock(ev) ==
    /\ ~uaf
    /\ cs.pc = "got"
    /\ Readers = {}
    /\ cs.op = EPOLL_CTL_DEL => cs.fd \notin nt
    /\ LET r == CtlResult(cs.vol, cs.op, cs.fd, ev, FALSE, TRUE)
       IN /\ list' = r.list
          /\ epin' = (epin \/ r.post)
          /\ cs' = [cs EXCEPT !.pc = "held", !.ret = r.ret, !.wlocked = TRUE]
          /\ \E W \in (IF r.post
                        THEN WakeSets(PostFanout(r.list[FirstFd(r.list, cs.fd)]))
                        ELSE {{}}) : wt' = Woke(W)
    /\ uaf' = (uaf \/ CtlUndefined(cs.vol, cs.op, cs.fd))
    /\ UNCHANGED <<fdtab, ready, wvars, ctl, torn, nt>>

\* an exit that leaves the lock held after an unknown op code
UnlocksKnownOps(op) == op \in {EPOLL_CTL_ADD, EPOLL_CTL_MOD, EPOLL_CTL_DEL}

\* uk_file_wunlock(epf) is reached after the switch, whatever the op code
Unlocks(op) == TRUE

\* uk_file_wunlock(epf), then fdrop(sf.vfile) or uk_fdtab_ret(sf.ofile)
CtlExit(c) ==
    [c EXCEPT !.pc = "ret", !.wlocked = ~Unlocks(c.op), !.ref = @ - 1,
              !.drops = @ + 1]

CUnlock ==
    /\ ~uaf
    /\ cs.pc = "held"
    /\ cs' = CtlExit(cs)
    /\ UNCHANGED <<fdtab, ready, list, epin, wvars, ctl, uaf, torn, wt, nt>>

\* return ret
CReturn ==
    /\ cs.pc = "ret"
    /\ cs' = NoCs
    /\ UNCHANGED <<fdtab, ready, list, epin, wvars, ctl, uaf, torn, wt, nt>>

\* -- close of a legacy file: eventpoll_notify_close, which takes no lock of
\* the epoll file; the file stays open while a control call holds a reference
SClose(fd) ==
    /\ ~uaf
    /\ fdtab[fd] = "legacy"
    /\ fd \notin nt
    /\ ~(cs.pc \in {"got", "held"} /\ cs.fd = fd)
    /\ fdtab' = [fdtab EXCEPT ![fd] = "closed"]
    /\ ready' = [ready EXCEPT ![fd] = {}]
    /\ list' = AfterClose(list, fd, fdtab[fd])
    /\ uaf' = (uaf \/ CloseWalksFreed(list, fd))
    /\ UNCHANGED <<epin, wvars, ctl, torn, wt, nt, cs>>

\* a control call taken whole: reference, write lock, switch, unlock, drop
SCtl(op, fd, ev) ==
    /\ ~uaf
    /\ cs.pc = "none"
    /\ fdtab[fd] # "closed"
    /\ Readers = {}
    /\ op = EPOLL_CTL_DEL => fd \notin nt
    /\ LET r == CtlResult(EPOLL_VOLID, op, fd, ev, FALSE, TRUE)
       IN /\ list' = r.list
          /\ epin' = (epin \/ r.post)
          /\ \E W \in (IF r.post
                        THEN WakeSets(PostFanout(r.list[FirstFd(r.list, fd)]))
                        ELSE {{}}) : wt' = Woke(W)
    /\ uaf' = (uaf \/ CtlUndefined(EPOLL_VOLID, op, fd))
    /\ UNCHANGED <<fdtab, ready, wvars, ctl, torn, nt, cs>>

\* two waiters and the notifiers, statement by statement
NextWake ==
    \/ \E w \in StepWaiters : SWaitCall(w)
    \/ \E w \in StepWaiters : SClear(w)
    \/ \E w \in StepWaiters : SRlock(w)
    \/ \E w \in StepWaiters : SWalk(w)
    \/ \E w \in StepWaiters : SUnlock(w)
    \/ \E w \in StepWaiters : SPost(w)
    \/ \E w \in StepWaiters : SReturn(w)
    \/ \E fd \in Fds : NRaise(fd)
    \/ \E fd \in Fds : NSet(fd)
    \/ \E fd \in Fds : NDrop(fd)
    \/ \E fd \in Fds, ev \in StepEvents : SCtl(EPOLL_CTL_ADD, fd, ev)
    \/ \E fd \in Fds, ev \in StepEvents : SCtl(EPOLL_CTL_DEL, fd, ev)

WakeSpec == Init /\ [][NextWake]_vars

\* the thread whose walk the lock protects
Walker == "w1"

\* the control call, the close upcall and one waiter, statement by statement
NextLock ==
    \/ SWaitCall(Walker)
    \/ SClear(Walker)
    \/ SRlock(Walker)
    \/ SWalk(Walker)
    \/ SUnlock(Walker)
    \/ SPost(Walker)
    \/ SReturn(Walker)
    \/ \E fd \in Fds : NRaise(fd)
    \/ \E fd \in Fds : NSet(fd)
    \/ \E fd \in Fds, op \in {EPOLL_CTL_ADD, EPOLL_CTL_DEL, 0} :
          CCall(EPOLL_VOLID, op, fd)
    \/ CCall("other", EPOLL_CTL_ADD, 1)
    \/ \E ev \in StepEvents : CLock(ev)
    \/ CUnlock
    \/ CReturn
    \/ \E fd \in Fds : SClose(fd)

LockSpec == Init /\ [][NextLock]_vars

\* ------------------------------------------------------------ claims
\* the entry a control call on fd reaches
EntryOf(fd) == list[FirstFd(list, fd)]
\* interest restricted to the allowed interest bits, united with the always-on bits
EffectiveMask(ent) == (ent.events \cap EPOLL_EVENTS) \cup UKFD_POLL_ALWAYS
\* the step is a control call
CtlCalled == ctl = NoCtl /\ ctl' # NoCtl
\* the step is a wait call returning
WaitReturns(w) == pc[w] # "done" /\ pc'[w] = "done"

\* C1: the registry never holds two entries with the same descriptor number.
C1_UniqueDescriptors ==
    \A i, j \in Idx(list) : i # j => list[i].fd # list[j].fd

\* C1 witness: a native and a legacy entry are registered and an add of a
\* registered descriptor has just been refused.
C1_Witness ==
    /\ Len(list) = 2
    /\ \E i, j \in Idx(list) : list[i].legacy /\ ~list[j].legacy
    /\ ctl.op = EPOLL_CTL_ADD /\ ctl.ret = -EEXIST

\* C2: a transition of an interest bit on an edge-triggered entry is
\* delivered by wait: a wait whose deadline runs out returns 0 only when no
\* edge-triggered entry holds an undelivered interest bit.
C2_EdgeDelivered ==
    \A w \in Waiters :
        (pc[w] = "done" /\ wret[w] = 0) =>
            \A i \in Idx(list) :
                (IS_EDGEPOLL(list[i]) /\ ~list[i].dead) =>
                    list[i].revents \cap list[i].events = {}

\* C3: an extraction pass that inspects a level-triggered entry whose file
\* has an interest bit set writes an output with that bit for it (a pass
\* that returns fewer than max outputs has inspected every entry).
C3_LevelDelivered ==
    \A w \in Waiters :
        (pc[w] = "done" /\ wwalk[w] /\ wret[w] < wmax[w]) =>
            \A i \in Idx(list) :
                (~IS_EDGEPOLL(list[i]) /\ ~IS_ONESHOT(list[i])
                 /\ ~list[i].dead /\ list[i].hooked) =>
                    \A b \in ready[list[i].fd] \cap list[i].events \cap EPOLL_EVENTS :
                        \E k \in 1..Len(wout[w]) :
                            wout[w][k].fd = list[i].fd /\ b \in wout[w][k].events

\* C4: wait writes at most one output for a one-shot entry between arming
\* operations: no returning wait carries a slot for a one-shot entry that
\* has had one since it was added or last modified.
C4_OneShotOnce ==
    [][\A w \in Waiters :
         WaitReturns(w) =>
            \A k \in 1..Len(wout'[w]) : \A i \in Idx(list) :
                (list[i].fd = wout'[w][k].fd /\ IS_ONESHOT(list[i])) => ~list[i].fired]_vars

C6_ReadableWhenPending ==
    (\E i \in Idx(list) : list[i].revents # {}) => epin

\* C7: every entry's accumulator holds only bits of its effective mask.
C7_AccumulatorWithinMask ==
    \A i \in Idx(list) : list[i].revents \subseteq EffectiveMask(list[i])

\* C7 witness: a hooked entry whose effective mask leaves out a bit its file
\* has raised, beside an entry that has accumulated that bit.
C7_Witness ==
    \E i, j \in Idx(list) :
        /\ list[i].hooked /\ ~list[i].dead
        /\ "IN" \in ready[list[i].fd] /\ "IN" \notin EffectiveMask(list[i])
        /\ list[j].revents = {"IN"}

\* C8: a control call that fails changes neither the registry nor the
\* readable bit; add of a present descriptor returns EEXIST, add returns
\* ENOMEM only for an absent one, modify and delete of an absent descriptor
\* return ENOENT, and delete of a present descriptor returns 0 and removes it.
C8_FailingCtlChangesNothing ==
    [][CtlCalled =>
         LET c == ctl'
             known == c.vol = EPOLL_VOLID /\ fdtab[c.fd] # "closed"
         IN /\ c.ret < 0 => (list' = list /\ epin' = epin)
            /\ (known /\ c.op = EPOLL_CTL_ADD /\ HasFd(list, c.fd)) => c.ret = -EEXIST
            /\ c.ret = -ENOMEM => (c.op = EPOLL_CTL_ADD /\ ~HasFd(list, c.fd))
            /\ (known /\ c.op \in {EPOLL_CTL_MOD, EPOLL_CTL_DEL} /\ ~HasFd(list, c.fd))
                  => c.ret = -ENOENT
            /\ (known /\ c.op = EPOLL_CTL_DEL /\ HasFd(list, c.fd))
                  => (c.ret = 0 /\ ~HasFd(list', c.fd))]_vars

\* C8 witness: a delete of an absent descriptor has been refused while
\* another entry holds undelivered bits.
C8_Witness ==
    /\ ctl.vol = EPOLL_VOLID /\ ctl.op = EPOLL_CTL_DEL /\ ctl.ret = -ENOENT
    /\ \E i \in Idx(list) : list[i].revents # {}
    /\ epin

\* C9: when add of a legacy file whose poll failed has returned 0, the entry
\* holds the error bit and the epoll file is readable.
C9_ErrorAddPosts ==
    (ctl.op = EPOLL_CTL_ADD /\ ctl.ret = 0 /\ EntryOf(ctl.fd).legacy
     /\ ~EntryOf(ctl.fd).hooked) =>
        (EntryOf(ctl.fd).revents = EPOLLERR /\ epin)

\* C10: no entry refers to a legacy file that has been closed.
C10_CloseRemovesEntries ==
    \A i \in Idx(list) : ~(list[i].legacy /\ list[i].dead)

\* the step is a call without a deadline, or the wake of one
Untimed(w) ==
    \/ pc[w] = "poll"
    \/ \E max \in 1..MaxEvents, pollok \in BOOLEAN : WaitCall(w, max, FALSE, pollok)

\* the position in the registry of the entry a slot was written for
SlotIdx(l, slot) == FirstFd(l, slot.fd)

\* C13: a wait call returns 0 only when its deadline has run out; otherwise
\* it returns n with 1 <= n <= max, and the n slots hold nonzero event masks
\* with the user data of distinct entries of the registry, in registration
\* order; a wake without output goes back to blocking.
C13_WaitResult ==
    [][\A w \in Waiters :
         WaitReturns(w) =>
            /\ wret'[w] = Len(wout'[w])
            /\ wret'[w] <= wmax'[w]
            /\ (wret'[w] = 0) => ~Untimed(w)
            /\ \A k \in 1..Len(wout'[w]) :
                  /\ wout'[w][k].events # {}
                  /\ HasFd(list', wout'[w][k].fd)
                  /\ wout'[w][k].data = list'[SlotIdx(list', wout'[w][k])].data
            /\ \A k, m \in 1..Len(wout'[w]) :
                  k < m => SlotIdx(list', wout'[w][k]) < SlotIdx(list', wout'[w][m])]_vars

\* C13 witness: a call has returned two events, written for two entries.
C13_Witness ==
    \E w \in Waiters :
        /\ pc[w] = "done" /\ wret[w] = 2
        /\ wout[w][1].fd # wout[w][2].fd

\* C15: every entry of the registry whose file is open is registered with
\* that file exactly once: a native entry's hook is on the file's pollqueue,
\* a legacy entry's hook record is on the file's epoll-link list once.
C15_RegisteredOnce ==
    \A i \in Idx(list) :
        ~list[i].dead =>
            IF list[i].legacy THEN list[i].link = "linked" ELSE list[i].hooked

\* the step is one turn of w's wait loop: clear, walk, post
PassStep(w) ==
    /\ epin
    /\ \/ \E max \in 1..MaxEvents, timed \in BOOLEAN, pollok \in BOOLEAN :
             WaitCall(w, max, timed, pollok)
       \/ \E pollok \in BOOLEAN : WaitWake(w, pollok)

\* the turn stopped at the end of the list, not at maxevents
WalkedAll(w) == pc'[w] = "poll" \/ (pc'[w] = "done" /\ wret'[w] < wmax'[w])

\* C17: when a turn of the wait loop inspects a level-triggered entry with a
\* nonzero accumulator whose file has no readiness within the effective mask,
\* it writes no slot for the entry, leaves its accumulator at zero, and the
\* readable bit is set afterwards only if another entry was reported.
C17_StaleSuppressed ==
    [][\A w \in Waiters :
         (PassStep(w) /\ WalkedAll(w)) =>
            \A i \in Idx(list) :
                (/\ ~IS_EDGEPOLL(list[i]) /\ ~list[i].dead
                 /\ list[i].revents # {}
                 /\ ready[list[i].fd] \cap EffectiveMask(list[i]) = {}) =>
                    /\ list'[i].revents = {}
                    /\ pc'[w] = "done" =>
                          \A k \in 1..Len(wout'[w]) : wout'[w][k].fd # list[i].fd
                    /\ epin' => \E j \in Idx(list) \ {i} : list'[j].revents # {}]_vars

\* C18: when a wait has stopped at max outputs, entries that still hold
\* undelivered bits keep the epoll file readable, so the next wait finds them.
C18_NothingStranded ==
    \A w \in Waiters :
        (/\ pc[w] = "done" /\ wwalk[w] /\ wret[w] = wmax[w]
         /\ \E i \in Idx(list) : list[i].revents # {} /\ list[i].hooked) => epin

\* C20: when add for a legacy file finds an entry with the same descriptor
\* number, that entry is a legacy entry, and modify acts on an entry whose
\* recorded class is the class of the file at that descriptor number.
C20_ClassConsistent ==
    /\ (/\ ctl.vol = EPOLL_VOLID /\ ctl.op = EPOLL_CTL_ADD /\ ctl.ret = -EEXIST
        /\ fdtab[ctl.fd] = "legacy") => EntryOf(ctl.fd).legacy
    /\ (ctl.vol = EPOLL_VOLID /\ ctl.op = EPOLL_CTL_MOD /\ ctl.ret = 0) =>
          (EntryOf(ctl.fd).legacy <=> fdtab[ctl.fd] = "legacy")

\* the number of calls of one kind made for an entry by the last teardown
Calls(kind, id) ==
    Cardinality({k \in 1..Len(torn) : torn[k].call = kind /\ torn[k].id = id})

\* C19: every entry a handler takes down is unregistered exactly once and
\* freed exactly once by it.
C19_TornDownOnce ==
    \A k \in 1..Len(torn) :
        Calls("unregister", torn[k].id) = 1 /\ Calls("free", torn[k].id) = 1

\* the threads the step wakes out of uk_file_poll_until
Woken == {w \in StepWaiters : wt[w].pc = "poll" /\ wt'[w].pc = "seen"}
\* the step is the post of the notifier of the file at fd
NotifierPosts(fd) == fd \in nt /\ fd \notin nt'

\* C11 as stated: with both threads blocked in wait, the post of a
\* notification for an edge-triggered entry wakes exactly one of them.
C11_OneWaiterWoken ==
    [][\A fd \in Fds :
         (NotifierPosts(fd) /\ Blocked = StepWaiters /\ IS_EDGEPOLL(EntryOf(fd)))
            => Cardinality(Woken) = 1]_vars

\* C11 as amended: with both threads blocked, the post for a native
\* edge-triggered entry wakes exactly one of them and the post for a legacy
\* entry wakes both; a walk that writes a slot for an edge-triggered entry
\* leaves its accumulator empty, so only one call returns the event.
C11_EdgeWake ==
    [][/\ \A fd \in Fds :
            (NotifierPosts(fd) /\ Blocked = StepWaiters /\ IS_EDGEPOLL(EntryOf(fd)))
               => IF EntryOf(fd).legacy THEN Woken = StepWaiters
                  ELSE Cardinality(Woken) = 1
       /\ \A w \in StepWaiters :
            (wt[w].pc = "walk" /\ wt'[w].nout > wt[w].nout
             /\ IS_EDGEPOLL(list[IdxOfId(list, wt[w].cur)]))
               => list'[IdxOfId(list, wt[w].cur)].revents = {}]_vars

\* C11 witness: one thread is returning one event of the native
\* edge-triggered entry while the other is still blocked.
C11_Witness ==
    /\ wt["w1"].pc = "ret" /\ wt["w1"].nout = 1 /\ wt["w1"].got = {1}
    /\ wt["w2"].pc = "poll"
    /\ HasFd(list, 1) /\ IS_EDGEPOLL(EntryOf(1)) /\ ~EntryOf(1).legacy

\* C12: a control call on a file that is no epoll file, or with an unknown
\* op code, returns EINVAL and leaves the registry alone; when a control call
\* returns, the write lock is not held and the reference it took on the
\* monitored file, if any, has been dropped once.
C12_CtlDispatch ==
    [][/\ (cs.pc # "ret" /\ cs'.pc = "ret") =>
            /\ ~cs'.wlocked
            /\ cs'.ref = 0
            /\ cs'.drops = (IF cs.pc = "held" THEN 1 ELSE 0)
            /\ cs'.vol # EPOLL_VOLID => (cs'.ret = -EINVAL /\ list' = list)
       /\ (cs.pc = "got" /\ cs'.pc = "held"
           /\ cs.op \notin {EPOLL_CTL_ADD, EPOLL_CTL_MOD, EPOLL_CTL_DEL}) =>
            (cs'.ret = -EINVAL /\ list' = list /\ epin' = epin)
       /\ cs'.wlocked => cs'.vol = EPOLL_VOLID]_vars

\* C12 witness: a call with an unknown op code has returned EINVAL on an
\* epoll file that holds an entry.
C12_Witness ==
    /\ cs.pc = "ret" /\ cs.vol = EPOLL_VOLID /\ cs.op = 0 /\ cs.ret = -EINVAL
    /\ list # << >>

\* C14: no entry is linked into or taken off the registry while a wait call
\* holds the read lock and walks the list.
C14_NoUnlinkUnderReader ==
    [][IdsOf(list') # IdsOf(list) => Readers = {}]_vars

\* no notifier is between its OR and its post, no waiter between its clear
\* and its post
Quiescent ==
    /\ nt = {}
    /\ \A w \in StepWaiters : wt[w].pc \in {"out", "poll", "seen", "ret"}

\* C16: under every interleaving of notifiers and waiters, at a quiescent
\* moment no bit is left in an accumulator with the readable bit clear.
C16_NoBitLeftBehind ==
    Quiescent => ((\E i \in Idx(list) : list[i].revents # {}) => epin)

\* C16 witness: a notifier has ORed its bits in and not yet posted while a
\* waiter has cleared the readable bit and not yet walked.
C16_Witness ==
    /\ nt # {}
    /\ \E w \in StepWaiters : wt[w].pc = "clear"
    /\ \E i \in Idx(list) : list[i].revents # {}

====
